---- MODULE Spec2Model ----
(***************************************************************************)
(* Model of app_final_1769505626408.py: a Streamlit script that loads API  *)
(* credentials, fetches a keyword's total search volume (ad API) and its   *)
(* relative monthly trend (DataLab API), both memoized with a TTL, rescales*)
(* the trend to absolute volumes and renders growth metrics.               *)
(*                                                                         *)
(* Keywords are sequences of one-character strings so that                 *)
(* str.replace(" ", "") is computed, not assumed.  Real numbers are exact  *)
(* rationals <<num, den>>; inside the bounds below the float64 results of  *)
(* the script coincide with the exact ones.                                *)
(***************************************************************************)
EXTENDS Integers, Sequences, FiniteSets, TLC

\* ------------------------------------------------------------------ bounds
MaxRatio == 3          \* relative ratios range over 0..MaxRatio
MaxBaseline == 6       \* monthly counts of the rich baseline responses
MaxShortLen == 3       \* every series up to this length is enumerated
MaxLen == 14           \* longest (patterned) series
TickStep == 2000       \* seconds the clock advances per Tick
MaxTicks == 2          \* the clock stops after this many ticks
MaxCandidates == 2     \* longest keywordList of the rich volume responses

\* ------------------------------------------------------- program constants
TTL == 3600            \* st.cache_data(ttl=3600)
CensoredValue == 5     \* "< 10" is counted as 5
MoMLen == 2            \* len(df) >= 2
YoYLen == 13           \* len(df) >= 13 and df.iloc[-13]
OK == 200              \* the only status_code treated as success
DefaultSpan == 370     \* timedelta(days=370)
DayLength == 86400     \* seconds between two values of datetime.now().date()

\* ------------------------------------------------------------ option values
None == <<>>
Some(x) == <<x>>

\* ------------------------------------------------------------- credentials
SecretFields ==
  {"AD_API_KEY", "AD_SECRET_KEY", "AD_CUSTOMER_ID",
   "DATALAB_CLIENT_ID", "DATALAB_CLIENT_SECRET"}

\* st.secrets["naver_api"] as the set of fields the section holds; a missing
\* file or section is the empty set.
SecretConfigs ==
  {SecretFields} \cup {SecretFields \ {f} : f \in SecretFields} \cup {{}}

\* A loader that only checks that the section holds something.
load_api_keys_anyfield(present) ==
  [success |-> present # {}]

\* Any missing field raises inside the try block and yields success False.
load_api_keys(present) ==
  [success |-> \A f \in SecretFields : f \in present]

\* ---------------------------------------------------------------- keywords
clean(keyword) == SelectSeq(keyword, LAMBDA c : c # " ")

KwAB == <<"a", "b">>
KwASpB == <<"a", " ", "b">>
KwABSp == <<"a", "b", " ">>
KwC == <<"c">>
KwA == <<"a">>

\* ---------------------------------------------------- volume endpoint data
Exact(n) == [kind |-> "int", n |-> n]
Censored == [kind |-> "censored", n |-> 0]
Text == [kind |-> "text", n |-> 0]

Item(k, pcCnt, moCnt) ==
  [relKeyword |-> k, monthlyPcQcCnt |-> pcCnt, monthlyMobileQcCnt |-> moCnt,
   compIdx |-> "low"]

VolException == [kind |-> "exception", status_code |-> 0, keywordList |-> <<>>]
VolHttp(status, kwd_list) ==
  [kind |-> "http", status_code |-> status, keywordList |-> kwd_list]

Failure(m) == [success |-> FALSE, msg |-> m]
Success(d) == [success |-> TRUE, data |-> d]

\* The matching loop without its break: the last match wins.
RECURSIVE scan_no_break(_, _, _)
scan_no_break(kwd_list, clean_keyword, i) ==
  IF i > Len(kwd_list) THEN None
  ELSE LET later == scan_no_break(kwd_list, clean_keyword, i + 1)
       IN  IF later # None THEN later
           ELSE IF clean(kwd_list[i].relKeyword) = clean_keyword
                THEN Some(kwd_list[i]) ELSE None

\* for item in kwd_list:
\*     if item['relKeyword'].replace(" ", "") == clean_keyword: target_item = item; break
RECURSIVE scan(_, _, _)
scan(kwd_list, clean_keyword, i) ==
  IF i > Len(kwd_list) THEN None
  ELSE IF clean(kwd_list[i].relKeyword) = clean_keyword THEN Some(kwd_list[i])
  ELSE scan(kwd_list, clean_keyword, i + 1)

\* target_item after the loop and the first-record fallback.
select_target(kwd_list, keyword) ==
  LET found == scan(kwd_list, clean(keyword), 1)
  IN  IF found = None /\ kwd_list # <<>> THEN Some(kwd_list[1]) ELSE found

\* 5 if str(cnt).startswith("<") else int(cnt)
count_to_vol(cnt) == IF cnt.kind = "censored" THEN CensoredValue ELSE cnt.n

\* The local target_item at the point get_total_volume returns.
target_of(keyword, response) ==
  IF response.kind = "exception" \/ response.status_code # OK THEN None
  ELSE select_target(response.keywordList, keyword)

get_total_volume(keyword, response) ==
  IF response.kind = "exception" THEN Failure("transport exception")
  ELSE IF response.status_code # OK THEN Failure("Ad API Error")
  ELSE LET t == select_target(response.keywordList, keyword)
       IN  IF t = None THEN Failure("no search result")
           ELSE IF t[1].monthlyPcQcCnt.kind = "text"
                   \/ t[1].monthlyMobileQcCnt.kind = "text"
                THEN Failure("invalid literal for int()")
           ELSE Success([keyword |-> t[1].relKeyword,
                         total_vol |-> count_to_vol(t[1].monthlyPcQcCnt)
                                       + count_to_vol(t[1].monthlyMobileQcCnt),
                         comp_idx |-> t[1].compIdx])

\* ----------------------------------------------------- trend endpoint data
Point(p, r) == [period |-> p, ratio |-> r]

\* response.json(): a dict that may lack 'results'; results[0]['data'] is the
\* list of {period, ratio} points.
NoResultsBody == [has_results |-> FALSE, results |-> <<>>]
SeriesBody(items) == [has_results |-> TRUE, results |-> <<[data |-> items]>>]

TrendException == [kind |-> "exception", status_code |-> 0, json |-> NoResultsBody]
TrendHttp(status, body) == [kind |-> "http", status_code |-> status, json |-> body]

\* Returns the parsed body on status 200 and None on any other status or
\* on an exception; the arguments only shape the request.
get_trend_data(keyword, s_date, e_date, response) ==
  IF response.kind = "http" /\ response.status_code = OK
  THEN Some(response.json) ELSE None

\* ------------------------------------------------------ rescaling (173-182)
\* astype(int) without the round: truncation.
round_floor(n, d) == n \div d

\* Series.round(0): round half to even of n/d, d > 0.
round0(n, d) ==
  LET q == n \div d
      r == n % d
  IN  IF 2 * r < d THEN q
      ELSE IF 2 * r > d THEN q + 1
      ELSE IF q % 2 = 0 THEN q ELSE q + 1

\* Falls back to the baseline itself when the last ratio is zero.
multiplier_keep_baseline(current_total_vol, last_ratio) ==
  IF last_ratio > 0 THEN <<current_total_vol, last_ratio>>
  ELSE <<current_total_vol, 1>>

\* multiplier = current_total_vol / last_ratio if last_ratio > 0 else 0
multiplier(current_total_vol, last_ratio) ==
  IF last_ratio > 0 THEN <<current_total_vol, last_ratio>> ELSE <<0, 1>>

\* Anchors on the first point instead of the last.
last_ratio_first(items) == items[1].ratio

\* df.iloc[-1]['비율']
last_ratio_of(items) == items[Len(items)].ratio

\* df['검색량'] = (df['비율'] * multiplier).round(0).astype(int)
rescale(items, current_total_vol) ==
  LET m == multiplier(current_total_vol, last_ratio_of(items))
  IN  [i \in 1..Len(items) |->
        [period |-> items[i].period, ratio |-> items[i].ratio,
         volume |-> round0(items[i].ratio * m[1], m[2])]]

\* ------------------------------------------------- growth metrics (186-212)
Zero == <<0, 1>>

\* ((curr - prev) / prev) * 100 as a rational
growth(curr, prev) == <<(curr - prev) * 100, prev>>

Abs(n) == IF n < 0 THEN 0 - n ELSE n

\* f"{g:+.1f}%": a sign and the value in tenths of a percent.
fmt(g) == [text |-> "percent", neg |-> g[1] < 0,
           tenths |-> round0(Abs(g[1]) * 10, g[2])]
Dash == [text |-> "-", neg |-> FALSE, tenths |-> 0]

mom_of(frame) ==
  IF Len(frame) >= MoMLen /\ frame[Len(frame) - 1].volume > 0
  THEN growth(frame[Len(frame)].volume, frame[Len(frame) - 1].volume)
  ELSE Zero

\* Compares with the first row of the frame (df.iloc[0]).
yoy_index_first(frame) == 1

\* position of df.iloc[-13]
yoy_index(frame) == Len(frame) - YoYLen + 1

has_yoy_of(frame) ==
  Len(frame) >= YoYLen /\ frame[yoy_index(frame)].volume > 0

yoy_of(frame) ==
  IF has_yoy_of(frame)
  THEN growth(frame[Len(frame)].volume, frame[yoy_index(frame)].volume)
  ELSE Zero

\* The data-processing block: "crash" is an exception nothing catches
\* (results[0] of an empty list, or two column names for a frame that has
\* no column because the data list is empty).
frame_of(raw, current_total_vol) ==
  IF raw # None /\ raw[1].has_results
  THEN IF raw[1].results = <<>> \/ raw[1].results[1].data = <<>>
       THEN [crash |-> TRUE, df |-> <<>>]
       ELSE [crash |-> FALSE, df |-> rescale(raw[1].results[1].data, current_total_vol)]
  ELSE [crash |-> FALSE, df |-> <<>>]

\* ------------------------------------------------------- memoization (40,101)
\* A cache is a set of entries [key, value, at], at most one per key.
cache_get(cache, key) == {e \in cache : e.key = key}

\* An entry answers a call until ttl seconds have passed since it was stored.
is_fresh(cache, key, t) == \E e \in cache_get(cache, key) : t - e.at < TTL

cache_value(cache, key) == (CHOOSE e \in cache_get(cache, key) : TRUE).value

cache_store(cache, key, value, t) ==
  {e \in cache : e.key # key} \cup {[key |-> key, value |-> value, at |-> t]}

\* A memoizer that keeps successful results only.
memo_volume_success_only(cache, key, res, t) ==
  IF res.success THEN cache_store(cache, key, res, t) ELSE cache

\* @st.cache_data(ttl=3600) on get_total_volume: the return value is stored,
\* whatever it is.
memo_volume(cache, key, res, t) == cache_store(cache, key, res, t)

\* @st.cache_data(ttl=3600) on get_trend_data.
memo_trend(cache, key, raw, t) == cache_store(cache, key, raw, t)

\* ------------------------------------------------------------------- inputs
Keywords == {KwAB, KwASpB}

\* today = datetime.now().date(), as a day number; the clock counts seconds
\* from a midnight.
today_of(t) == t \div DayLength

\* The date inputs as the script run at time t leaves them when the user
\* does not edit them: today - 370 days and today.
default_dates(t) == <<today_of(t) - DefaultSpan, today_of(t)>>

\* date.strftime("%Y-%m-%d"): the text that names the day.
strftime(d) == [format |-> "%Y-%m-%d", day |-> d]

\* Times of day at which the page is first loaded: a midnight, and one
\* tick before the next midnight.
StartTimes == {0, DayLength - TickStep}

VolResponses ==
  {VolException, VolHttp(500, <<>>), VolHttp(OK, <<>>),
   VolHttp(OK, <<Item(KwAB, Censored, Exact(10))>>)}

TrendResponses ==
  {TrendException, TrendHttp(500, NoResultsBody), TrendHttp(OK, NoResultsBody),
   TrendHttp(OK, SeriesBody(<<>>)),
   TrendHttp(OK, SeriesBody(<<Point(1, 1), Point(2, 2)>>))}

\* ------------------------------------------------------------------- state
VARIABLES
  secrets,         \* fields present in st.secrets["naver_api"]
  api_keys,        \* result of load_api_keys() in the current script run
  pc,              \* "idle" (script finished, button not pressed),
                   \* "call_volume", "call_trend" (inside the memoized
                   \* call), "done" (script finished after a button run)
  target_keyword,  \* the text input
  dates,           \* <<start_date, end_date>> of the date inputs
  ad_res,          \* None or Some(result of get_total_volume)
  vol_response,    \* None or Some(HTTP response of the volume endpoint)
  target_item,     \* the local target_item of get_total_volume
  trend_arg,       \* None or Some(keyword passed to get_trend_data)
  raw_data,        \* result of get_trend_data
  df,              \* rows [period, ratio, volume]
  mom_growth, yoy_growth, has_yoy,
  metrics,         \* None or Some([k1, k2, k3, k4]) as rendered
  outcome,         \* what the run showed
  guide,           \* the setup guide is on the page
  volCache, trendCache,
  now,             \* seconds
  ticks,           \* ticks taken so far
  vol_calls, trend_calls,       \* calls of the memoized functions in this run
  vol_requests, trend_requests  \* HTTP requests sent in this run

vars ==
  <<secrets, api_keys, pc, target_keyword, dates, ad_res, vol_response,
    target_item, trend_arg, raw_data, df, mom_growth, yoy_growth, has_yoy,
    metrics, outcome, guide, volCache, trendCache, now, ticks, vol_calls,
    trend_calls, vol_requests, trend_requests>>

runLocals ==
  <<ad_res, vol_response, target_item, trend_arg, raw_data, df, mom_growth,
    yoy_growth, has_yoy, metrics, vol_calls, trend_calls, vol_requests,
    trend_requests>>

FreshLocals ==
  /\ ad_res' = None
  /\ vol_response' = None
  /\ target_item' = None
  /\ trend_arg' = None
  /\ raw_data' = None
  /\ df' = <<>>
  /\ mom_growth' = Zero
  /\ yoy_growth' = Zero
  /\ has_yoy' = FALSE
  /\ metrics' = None
  /\ vol_calls' = 0
  /\ trend_calls' = 0
  /\ vol_requests' = 0
  /\ trend_requests' = 0

\* The page load: the script has run once with the button not pressed
\* (131-152, 249-262).
InitWith(S, T) ==
  /\ secrets \in S
  /\ now \in T
  /\ ticks = 0
  /\ api_keys = load_api_keys(secrets)
  /\ pc = "idle"
  /\ target_keyword = KwAB
  /\ dates = default_dates(now)
  /\ ad_res = None
  /\ vol_response = None
  /\ target_item = None
  /\ trend_arg = None
  /\ raw_data = None
  /\ df = <<>>
  /\ mom_growth = Zero
  /\ yoy_growth = Zero
  /\ has_yoy = FALSE
  /\ metrics = None
  /\ outcome = "none"
  /\ guide = ~ load_api_keys(secrets).success
  /\ volCache = {}
  /\ trendCache = {}
  /\ vol_calls = 0
  /\ trend_calls = 0
  /\ vol_requests = 0
  /\ trend_requests = 0

Init == InitWith(SecretConfigs, StartTimes)

\* ------------------------------------------------------------------ actions
\* Script run with the button pressed and incomplete credentials (131-154,
\* 249-262): error message, setup guide, nothing else.
RunConfigError(K) ==
  /\ pc \in {"idle", "done"}
  /\ ~ load_api_keys(secrets).success
  /\ \E kw \in K : target_keyword' = kw
  /\ dates' = default_dates(now)
  /\ api_keys' = load_api_keys(secrets)
  /\ FreshLocals
  /\ outcome' = "config_error"
  /\ guide' = TRUE
  /\ pc' = "done"
  /\ UNCHANGED <<secrets, volCache, trendCache, now, ticks>>

\* Script run with the button not pressed (page reload, or an input was
\* edited): 131-152 and 249-262 only.  The page shows no result.
Rerun(K) ==
  /\ pc \in {"idle", "done"}
  /\ \E kw \in K : target_keyword' = kw
  /\ dates' = default_dates(now)
  /\ api_keys' = load_api_keys(secrets)
  /\ FreshLocals
  /\ outcome' = "none"
  /\ guide' = ~ load_api_keys(secrets).success
  /\ pc' = "idle"
  /\ UNCHANGED <<secrets, volCache, trendCache, now, ticks>>

\* Script run with the button pressed and complete credentials, up to the
\* call of get_total_volume (131-159).
RunStart(K) ==
  /\ pc \in {"idle", "done"}
  /\ load_api_keys(secrets).success
  /\ \E kw \in K : target_keyword' = kw
  /\ dates' = default_dates(now)
  /\ api_keys' = load_api_keys(secrets)
  /\ FreshLocals
  /\ outcome' = "none"
  /\ guide' = FALSE
  /\ pc' = "call_volume"
  /\ UNCHANGED <<secrets, volCache, trendCache, now, ticks>>

\* A failed volume fetch is tried again.
after_volume_retry(res) == IF res.success THEN "call_trend" ELSE "call_volume"

\* if ad_res.get("success"): ... else: st.error(...)   (161, 243-244)
after_volume(res) == IF res.success THEN "call_trend" ELSE "done"

VolumeReturn(res) ==
  /\ ad_res' = Some(res)
  /\ vol_calls' = vol_calls + 1
  /\ pc' = after_volume(res)
  /\ outcome' = IF res.success THEN "none" ELSE "volume_error"
  /\ UNCHANGED <<secrets, api_keys, target_keyword, dates, trend_arg, raw_data,
                 df, mom_growth, yoy_growth, has_yoy, metrics, guide,
                 trendCache, now, ticks, trend_calls, trend_requests>>

\* get_total_volume(target_keyword, api_keys) answered by the cache.
VolumeHit ==
  /\ pc = "call_volume"
  /\ is_fresh(volCache, target_keyword, now)
  /\ VolumeReturn(cache_value(volCache, target_keyword))
  /\ UNCHANGED <<volCache, vol_requests, vol_response, target_item>>

\* get_total_volume runs: one GET, whose response is drawn from R; the
\* return value, whatever it is, is stored under the call's arguments.
VolumeFetch(R) ==
  /\ pc = "call_volume"
  /\ ~ is_fresh(volCache, target_keyword, now)
  /\ \E response \in R :
       LET res == get_total_volume(target_keyword, response)
       IN  /\ VolumeReturn(res)
           /\ vol_response' = Some(response)
           /\ target_item' = target_of(target_keyword, response)
           /\ volCache' = memo_volume(volCache, target_keyword, res, now)
  /\ vol_requests' = vol_requests + 1

\* real_kwd = ad_data['keyword']
trend_keyword(res, typed) == res.data.keyword

\* s_date = start_date.strftime("%Y-%m-%d"); e_date likewise
s_date == strftime(dates[1])
e_date == strftime(dates[2])

trend_key == <<trend_keyword(ad_res[1], target_keyword), s_date, e_date>>

\* Lines 173-244 for the value get_trend_data returned.
TrendReturn(raw) ==
  LET real_kwd == trend_keyword(ad_res[1], target_keyword)
      current_total_vol == ad_res[1].data.total_vol
      f == frame_of(raw, current_total_vol)
      rendered == ~ f.crash /\ f.df # <<>>
  IN  /\ trend_arg' = Some(real_kwd)
      /\ trend_calls' = trend_calls + 1
      /\ raw_data' = raw
      /\ df' = f.df
      /\ mom_growth' = IF rendered THEN mom_of(f.df) ELSE Zero
      /\ yoy_growth' = IF rendered THEN yoy_of(f.df) ELSE Zero
      /\ has_yoy' = (rendered /\ has_yoy_of(f.df))
      /\ metrics' =
           IF rendered
           THEN Some([k1 |-> real_kwd, k2 |-> current_total_vol,
                      k3 |-> fmt(mom_of(f.df)),
                      k4 |-> IF has_yoy_of(f.df) THEN fmt(yoy_of(f.df)) ELSE Dash])
           ELSE None
      /\ outcome' = IF f.crash THEN "crash"
                    ELSE IF rendered THEN "rendered" ELSE "no_trend_data"
      /\ pc' = "done"
      /\ UNCHANGED <<secrets, api_keys, target_keyword, dates, ad_res,
                     vol_response, target_item, guide, volCache, now, ticks,
                     vol_calls, vol_requests>>

\* get_trend_data(real_kwd, s_date, e_date, api_keys) answered by the cache.
TrendHit ==
  /\ pc = "call_trend"
  /\ is_fresh(trendCache, trend_key, now)
  /\ TrendReturn(cache_value(trendCache, trend_key))
  /\ UNCHANGED <<trendCache, trend_requests>>

\* get_trend_data runs: one POST, whose response is drawn from R.
TrendFetch(R) ==
  /\ pc = "call_trend"
  /\ ~ is_fresh(trendCache, trend_key, now)
  /\ \E response \in R :
       LET raw == get_trend_data(trend_key[1], s_date, e_date, response)
       IN  /\ TrendReturn(raw)
           /\ trendCache' = memo_trend(trendCache, trend_key, raw, now)
  /\ trend_requests' = trend_requests + 1

\* Time passes.  The date inputs follow the clock at the next script run.
Tick ==
  /\ ticks < MaxTicks
  /\ ticks' = ticks + 1
  /\ now' = now + TickStep
  /\ UNCHANGED <<secrets, api_keys, pc, target_keyword, dates, outcome, guide,
                 volCache, trendCache>>
  /\ UNCHANGED runLocals

ConfigError == RunConfigError(Keywords)
Reload == Rerun(Keywords)
Start == RunStart(Keywords)
FetchVolume == VolumeFetch(VolResponses)
FetchTrend == TrendFetch(TrendResponses)

Next ==
  \/ ConfigError
  \/ Reload
  \/ Start
  \/ VolumeHit
  \/ FetchVolume
  \/ TrendHit
  \/ FetchTrend
  \/ Tick

Spec == Init /\ [][Next]_vars

\* ------------------------------------------- rescaling and metrics in depth
Ratios == 0..MaxRatio

Points(ratios) == [i \in 1..Len(ratios) |-> Point(i, ratios[i])]

ShortSeries == UNION {[1..n -> Ratios] : n \in 1..MaxShortLen}

\* Long series: free values at the last, the second-to-last and the
\* 13th-from-last position, one value everywhere else.
LongPattern(n, a, b, c, d) ==
  [i \in 1..n |-> IF i = n THEN d
                  ELSE IF i = n - 1 THEN c
                  ELSE IF i = n - YoYLen + 1 THEN b
                  ELSE a]

LongSeries ==
  {LongPattern(n, q[1], q[2], q[3], q[4]) :
     n \in (YoYLen - 1)..MaxLen, q \in Ratios \X Ratios \X Ratios \X Ratios}

SeriesResponses ==
  {TrendHttp(OK, SeriesBody(Points(r))) : r \in ShortSeries \cup LongSeries}

BaselineResponses ==
  {VolHttp(OK, <<Item(KwAB, Exact(n), Exact(0))>>) : n \in 0..MaxBaseline}
    \cup {VolHttp(OK, <<Item(KwAB, Censored, Censored)>>)}

InitOK == InitWith({SecretFields}, {0})

ReloadOne == Rerun({KwAB})
StartOne == RunStart({KwAB})
FetchBaseline == VolumeFetch(BaselineResponses)
FetchSeries == TrendFetch(SeriesResponses)

NextRescale ==
  \/ ReloadOne
  \/ StartOne
  \/ FetchBaseline
  \/ FetchSeries

SpecRescale == InitOK /\ [][NextRescale]_vars

\* ------------------------------------------------ record selection in depth
SelectKeywords == {KwAB, KwASpB, KwC}

CandidateItems ==
  {Item(k, c, Exact(0)) : k \in {KwAB, KwABSp, KwC, KwA},
                          c \in {Censored, Exact(1), Text}}

CandidateLists == UNION {[1..n -> CandidateItems] : n \in 0..MaxCandidates}

CandidateResponses == {VolHttp(OK, l) : l \in CandidateLists}

ReloadSelect == Rerun(SelectKeywords)
StartSelect == RunStart(SelectKeywords)
FetchCandidates == VolumeFetch(CandidateResponses)

NextSelect ==
  \/ ReloadSelect
  \/ StartSelect
  \/ FetchCandidates

SpecSelect == InitOK /\ [][NextSelect]_vars

\* =================================================================== claims
Rendered == pc = "done" /\ outcome = "rendered"
Baseline == ad_res[1].data.total_vol
Items == raw_data[1].results[1].data
LastRatio == Items[Len(Items)].ratio
HasItems ==
  /\ pc = "done"
  /\ raw_data # None
  /\ raw_data[1].has_results
  /\ raw_data[1].results # <<>>
  /\ Items # <<>>

\* C1 (anchoring): when the last ratio of a non-empty series is positive, the
\* last row's volume equals the baseline's total volume.
C1_Anchoring ==
  (HasItems /\ LastRatio > 0) =>
     /\ Len(df) = Len(Items)
     /\ df[Len(df)].volume = Baseline

C1_Witness ==
  /\ HasItems /\ Rendered
  /\ Len(df) >= 2
  /\ LastRatio > 1
  /\ df[1].ratio # LastRatio
  /\ Baseline > 0
  /\ df[Len(df)].volume = Baseline

\* C2 (zero multiplier): when the last ratio of a non-empty series is 0, the
\* run renders normally and every row's volume is 0, whatever the baseline.
C2_ZeroMultiplier ==
  (HasItems /\ LastRatio = 0) =>
     /\ outcome = "rendered"
     /\ Len(df) = Len(Items)
     /\ \A i \in 1..Len(df) : df[i].volume = 0

C2_Witness ==
  /\ HasItems /\ Rendered
  /\ LastRatio = 0
  /\ Baseline > 0
  /\ \E i \in 1..Len(df) : df[i].ratio > 0
  /\ \A i \in 1..Len(df) : df[i].volume = 0

\* C3 (month over month): with at least 2 rows and a positive second-to-last
\* volume, MoM is (curr - prev) / prev * 100 and is what the run shows;
\* otherwise MoM is undefined and what the run shows differs from what it
\* shows for a growth of exactly 0%.
C3_MoMUndefinedIsDistinguishable ==
  Rendered =>
    LET n == Len(df)
    IN  IF n >= 2 /\ df[n - 1].volume > 0
        THEN /\ mom_growth = <<(df[n].volume - df[n - 1].volume) * 100, df[n - 1].volume>>
             /\ metrics[1].k3 = fmt(mom_growth)
        ELSE metrics[1].k3 # fmt(Zero)

\* C4 (year over year): has_yoy holds exactly when there are at least 13 rows
\* and the 13th-from-last volume is positive; then YoY is
\* (curr - prevYr) / prevYr * 100 and is shown, otherwise a dash is shown.
C4_YoY ==
  Rendered =>
    LET n == Len(df)
        avail == n >= 13 /\ df[n - 12].volume > 0
    IN  /\ has_yoy = avail
        /\ avail =>
             /\ yoy_growth = <<(df[n].volume - df[n - 12].volume) * 100, df[n - 12].volume>>
             /\ metrics[1].k4.text = "percent"
             /\ metrics[1].k4 = fmt(yoy_growth)
        /\ ~ avail => metrics[1].k4 = Dash

C4_Witness ==
  /\ Rendered
  /\ has_yoy
  /\ Len(df) > 13
  /\ df[1].volume # df[2].volume
  /\ yoy_growth[1] # 0

\* C5 (empty series): a successful trend fetch whose data list is empty ends
\* the run with the "no trend data" warning, an empty frame and no metrics.
C5_EmptySeriesIsSkipped ==
  (/\ pc = "done"
   /\ raw_data # None
   /\ raw_data[1].has_results
   /\ raw_data[1].results # <<>>
   /\ raw_data[1].results[1].data = <<>>) =>
     /\ outcome = "no_trend_data"
     /\ df = <<>>
     /\ metrics = None

\* C6 (record selection): for a non-empty candidate list the selected record
\* is the first one whose stripped keyword equals the stripped input, or the
\* first record of the list when none matches; it is a record of the list.
C6_Selection ==
  (/\ vol_response # None
   /\ vol_response[1].kind = "http"
   /\ vol_response[1].status_code = 200
   /\ vol_response[1].keywordList # <<>>) =>
     LET l == vol_response[1].keywordList
         M == {i \in 1..Len(l) : clean(l[i].relKeyword) = clean(target_keyword)}
     IN  /\ target_item # None
         /\ \E i \in 1..Len(l) : target_item[1] = l[i]
         /\ M # {} => \E i \in M : (\A j \in M : i <= j) /\ target_item[1] = l[i]
         /\ M = {} => target_item[1] = l[1]
         /\ ad_res[1].success => ad_res[1].data.keyword = target_item[1].relKeyword

C6_Witness ==
  /\ vol_response # None
  /\ Len(vol_response[1].keywordList) >= 2
  /\ LET l == vol_response[1].keywordList
     IN  /\ clean(l[1].relKeyword) = clean(target_keyword)
         /\ clean(l[2].relKeyword) = clean(target_keyword)
         /\ l[1].relKeyword # target_keyword
         /\ l[1] # l[2]
         /\ target_item = Some(l[1])

\* C7 (missing credentials): with any credential field missing, no run calls
\* either endpoint or produces a series or a metric; a run ends with the
\* configuration error and the setup guide.
C7_HardStop ==
  (\E f \in SecretFields : f \notin secrets) =>
     /\ pc \in {"idle", "done"}
     /\ ~ api_keys.success
     /\ guide
     /\ vol_calls = 0 /\ trend_calls = 0
     /\ vol_requests = 0 /\ trend_requests = 0
     /\ volCache = {} /\ trendCache = {}
     /\ ad_res = None /\ raw_data = None
     /\ df = <<>> /\ metrics = None
     /\ pc = "idle" => outcome = "none"
     /\ pc = "done" => outcome = "config_error"

C7_Witness ==
  /\ pc = "done"
  /\ Cardinality(secrets) = Cardinality(SecretFields) - 1
  /\ outcome = "config_error"
  /\ guide

\* C8 (volumes): every row's volume is a non-negative integer, the nearest
\* one to ratio * baseline / lastRatio (0 when the last ratio is 0).
C8_Volumes ==
  HasItems =>
    \A i \in 1..Len(df) :
       /\ df[i].volume \in Nat
       /\ df[i].ratio = Items[i].ratio
       /\ IF LastRatio > 0
          THEN 2 * Abs(df[i].volume * LastRatio - df[i].ratio * Baseline) <= LastRatio
          ELSE df[i].volume = 0

C8_Witness ==
  /\ HasItems /\ Rendered
  /\ \E i \in 1..Len(df) :
       /\ df[i].volume > 0
       /\ LastRatio > 0
       /\ df[i].volume * LastRatio > df[i].ratio * Baseline

\* C9 (order, no retry): in a run each fetch is called at most once; the
\* trend fetch only after a successful volume fetch and with its resolved
\* keyword; a failed volume fetch ends the run with an error message and
\* without trend request, frame or metrics.
C9_Order ==
  /\ vol_calls <= 1 /\ trend_calls <= 1
  /\ vol_requests <= vol_calls /\ trend_requests <= trend_calls
  /\ (ad_res = None) = (vol_calls = 0)
  /\ trend_calls = 1 =>
       /\ vol_calls = 1
       /\ ad_res[1].success
       /\ trend_arg = Some(ad_res[1].data.keyword)
  /\ (ad_res # None /\ ~ ad_res[1].success) =>
       /\ pc = "done"
       /\ outcome = "volume_error"
       /\ trend_calls = 0 /\ trend_requests = 0
       /\ trend_arg = None
       /\ df = <<>> /\ metrics = None

C9_Witness ==
  /\ pc = "done"
  /\ vol_requests = 1
  /\ trend_requests = 1
  /\ trend_arg # Some(target_keyword)
  /\ outcome = "rendered"

\* C10 (memoized failures): a call whose key has an entry younger than the
\* TTL returns that entry's value, success or failure, and sends no request;
\* any other call sends one request and stores what it returns, success or
\* failure, under its key; entries of other keys stay as they are.
MemoStep(calls, calls2, cache, cache2, key, requests, requests2, returned) ==
  calls2 = calls + 1 =>
    LET young == {e \in cache : e.key = key /\ now - e.at < TTL}
    IN  /\ young # {} =>
             /\ \E e \in young : returned = e.value
             /\ requests2 = requests
             /\ cache2 = cache
        /\ young = {} =>
             /\ requests2 = requests + 1
             /\ [key |-> key, value |-> returned, at |-> now] \in cache2
        /\ \A e \in cache : e.key # key => e \in cache2
        /\ \A e \in cache2 : e.key # key => e \in cache

C10_Memo ==
  [][/\ MemoStep(vol_calls, vol_calls', volCache, volCache', target_keyword,
                 vol_requests, vol_requests', ad_res'[1])
     /\ vol_calls' # vol_calls + 1 => volCache' = volCache
     /\ trend_calls' = trend_calls + 1 =>
          MemoStep(trend_calls, trend_calls', trendCache, trendCache',
                   <<ad_res[1].data.keyword, strftime(dates[1]), strftime(dates[2])>>,
                   trend_requests, trend_requests', raw_data')
     /\ trend_calls' # trend_calls + 1 => trendCache' = trendCache]_vars

C10_Witness ==
  /\ pc = "done"
  /\ vol_calls = 1
  /\ vol_requests = 0
  /\ ~ ad_res[1].success
  /\ \E e \in volCache : e.key # target_keyword /\ e.value.success

====
